---- MODULE Spec2Model ----
(***************************************************************************)
(* State-machine model of src/app.py: the Swiss Assistenzarzt job          *)
(* application bot.  The persisted profile document and its sent_emails    *)
(* sub-collection are shared by all sessions; every session owns its       *)
(* st.session_state and the state of its widgets.  One action is one       *)
(* script run triggered by an operator interaction, except that the Skip   *)
(* and catalog Send handlers are cut at their writes to the shared         *)
(* profile, so that the writes of two sessions interleave.                 *)
(***************************************************************************)
EXTENDS Integers, Sequences, FiniteSets, TLC

\* ------------------------------------------------------------ bounds
NRows == 3          \* rows of the job catalog
MaxSent == 2        \* cap on the number of SentEmail records
MaxPieces == 3      \* pieces of a completion in the parsing runs

Rows == 0 .. (NRows - 1)
Sessions == {"s1", "s2"}

\* ------------------------------------------------------------ values
NoJob == -1                 \* Python None where a row index is expected
None == "None"              \* Python None where a text is expected

Digits == <<"0", "1", "2", "3", "4", "5", "6", "7", "8", "9">>

RECURSIVE Str(_)
\* str(idx) of a non-negative row index
Str(i) == IF i < 10 THEN Digits[i + 1] ELSE Str(i \div 10) \o Digits[(i % 10) + 1]

\* A cell of the column 'Application Contact Email': a str, or the float NaN
\* pandas gives for an empty cell.
StrCell(chars) == [isstr |-> TRUE, chars |-> chars]
NaN == [isstr |-> FALSE, chars |-> <<>>]
EmailCells ==
    { StrCell(<<"a", "@", "h">>), StrCell(<<"n", "a">>), NaN }

\* '"@" in text'
HasAt(chars) == \E k \in 1 .. Len(chars) : chars[k] = "@"

Catalogs == [Rows -> EmailCells]

\* ------------------------------------------------------------ selector
\* render_job_finder, the condition of line 260
EligibleNoAt(jobs_df, applied_jobs, idx) ==
    /\ Str(idx) \notin applied_jobs
    /\ jobs_df[idx].isstr

Eligible(jobs_df, applied_jobs, idx) ==
    /\ Str(idx) \notin applied_jobs
    /\ jobs_df[idx].isstr
    /\ HasAt(jobs_df[idx].chars)

RECURSIVE ScanFrom(_, _, _)
\* the for loop of lines 258-262: first hit in file order, else None
ScanFrom(jobs_df, applied_jobs, idx) ==
    IF idx >= NRows THEN NoJob
    ELSE IF Eligible(jobs_df, applied_jobs, idx) THEN idx
    ELSE ScanFrom(jobs_df, applied_jobs, idx + 1)

NextJob(jobs_df, applied_jobs) == ScanFrom(jobs_df, applied_jobs, 0)

VARIABLES jobs_df, user_profile, sent_emails, session_state, ui, token_expired,
          client_secret, skipped_ids, skips_clicked, mails_sent, calls

vars == <<jobs_df, user_profile, sent_emails, session_state, ui, token_expired,
          client_secret, skipped_ids, skips_clicked, mails_sent, calls>>

\* ------------------------------------------------------------ texts and files
Pages == {"Job Finder", "Add Manual Job", "Dashboard"}

Uploads == { <<"cv.pdf">>, <<"cv.pdf", "cert.pdf">>, <<"scan.pdf">> }
Picks == { <<>>, <<"cert.pdf">> }

\* extract_text_from_pdf: the text of the pages, None when the reader fails
\* or no page yields text (the caller tests the result for truth)
extract_text_from_pdf(file) == IF file = "cv.pdf" THEN "cv_text" ELSE None

\* call_openai_api / translate_cv_text: the stripped completion, None when the
\* key is missing or the call raises
translate_cv_text(text, call_ok) == IF call_ok THEN "de:" \o text ELSE None

Title(idx) == "T" \o Str(idx)

RECURSIVE FirstToken(_)
\* text.split(",")[0]
FirstToken(chars) ==
    IF chars = <<>> \/ Head(chars) = "," THEN <<>>
    ELSE <<Head(chars)>> \o FirstToken(Tail(chars))

NoDetails == [job_id |-> NoJob, job_title |-> None, contact_email |-> <<>>]
\* --- str methods on texts as sequences of characters
IsPrefix(pat, text) ==
    Len(pat) <= Len(text) /\ SubSeq(text, 1, Len(pat)) = pat

Drop(text, n) == SubSeq(text, n + 1, Len(text))

RECURSIVE Find(_, _)
\* the number of characters before the first occurrence of pat, -1 if none
Find(text, pat) ==
    IF IsPrefix(pat, text) THEN 0
    ELSE IF text = <<>> THEN -1
    ELSE LET k == Find(Tail(text), pat) IN IF k = -1 THEN -1 ELSE k + 1

\* pat in text
Contains(text, pat) == Find(text, pat) # -1

\* text.split(pat, 1) when pat is in text
SplitFirst(text, pat) ==
    LET k == Find(text, pat)
    IN  <<SubSeq(text, 1, k), Drop(text, k + Len(pat))>>

RECURSIVE Replace(_, _)
\* text.replace(pat, ''): every occurrence, left to right
Replace(text, pat) ==
    IF text = <<>> THEN <<>>
    ELSE IF IsPrefix(pat, text) THEN Replace(Drop(text, Len(pat)), pat)
    ELSE <<Head(text)>> \o Replace(Tail(text), pat)

RECURSIVE LStrip(_)
LStrip(text) ==
    IF text # <<>> /\ Head(text) = " " THEN LStrip(Tail(text)) ELSE text

RECURSIVE RStrip(_)
RStrip(text) ==
    IF text # <<>> /\ text[Len(text)] = " "
    THEN RStrip(SubSeq(text, 1, Len(text) - 1)) ELSE text

\* text.strip()
Strip(text) == RStrip(LStrip(text))

Betreff == <<"B", "e", "t", "r", "e", "f", "f", ":">>
Subject == <<"S", "u", "b", "j", "e", "c", "t", ":">>
Separator == <<"|", "|", "|">>

\* the two fixed texts of line 143, each as one piece
FallbackSubject == <<"Bewerbung fuer die ausgeschriebene Position">>
Placeholder == <<"Could not generate email body.">>

\* what the chat completion gives: its content, or nothing when the key is
\* missing or the call raises
Completion(chars) == [ok |-> TRUE, chars |-> chars]
NoCompletion == [ok |-> FALSE, chars |-> <<>>]

\* call_openai_api, lines 77-94: the stripped content, or None
call_openai_api(completion) ==
    IF completion.ok THEN Completion(Strip(completion.chars)) ELSE NoCompletion

\* 'response' as a condition: not None and not the empty str
Truthy(response) == response.ok /\ response.chars # <<>>

NoContent == [about |-> None, subject |-> <<>>, body |-> <<>>]

\* the completions the workflow is explored on: one with the separator, and
\* a failed call
Responses ==
    { Completion(Betreff \o <<" ", "s">> \o Separator \o <<"b">>), NoCompletion }

\* lines 137-141: subject and body of a response with the separator
ParseParts(response) ==
    LET parts == SplitFirst(response.chars, Separator)
    IN  [subject |-> Strip(Replace(Replace(parts[1], Betreff), Subject)),
         body |-> Strip(parts[2])]

\* generate_personalized_email, lines 135-143: a dict in every case; 'about'
\* is the job the prompt was written for
generate_personalized_email(cv_content, details, completion) ==
    LET response == call_openai_api(completion)
        parsed == IF Truthy(response) /\ Contains(response.chars, Separator)
                  THEN ParseParts(response)
                  ELSE [subject |-> FallbackSubject,
                        body |-> IF Truthy(response) THEN response.chars
                                 ELSE Placeholder]
    IN  [about |-> details.job_title, subject |-> parsed.subject,
         body |-> parsed.body]

\* current_job_details of lines 272-278
JobDetails(df, idx) ==
    [job_id |-> idx, job_title |-> Title(idx),
     contact_email |-> FirstToken(df[idx].chars)]

NoToken == [stored |-> FALSE, refresh_token |-> FALSE]
Credential(rt) == [stored |-> TRUE, refresh_token |-> rt]

\* ------------------------------------------------------------ initial state
\* default_states, lines 383-388 (current_job_details and manual_job_details
\* are keys the page handlers add later)
default_states ==
    [step |-> "auth", gmail_service |-> FALSE, cv_content |-> None,
     attachments |-> <<>>, current_job_id |-> NoJob,
     generated_email_content |-> NoContent, manual_email_content |-> NoContent,
     current_job_details |-> NoDetails, manual_job_details |-> NoDetails]

NoData == [applied_jobs |-> {}, sent_count |-> 0, skipped_count |-> 0]

\* the widgets of a session: the position of its running handler, the page
\* radio, the job the last render of the Job Finder offered, the value of the
\* upload widget, whether the saved-CV button was drawn, and user_data as read
\* by the running script
default_ui ==
    [pc |-> "idle", page |-> "Job Finder", offered |-> NoJob, uploaded |-> <<>>,
     saved_shown |-> FALSE, user_data |-> NoData]

EmptyProfile ==
    [gmail_token |-> NoToken, translated_cv |-> None, applied_jobs |-> {},
     stats |-> [sent_count |-> 0, skipped_count |-> 0]]

\* the calls to the outside the last step made: the token refresh, the
\* consent flow, the CV translation, the mailbox send, the warning about
\* attachments it showed, and the draft generation (and whether it was a
\* regeneration) with the completion it got
NoCalls ==
    [refresh |-> 0, consent |-> 0, translate |-> 0, mail |-> 0, warning |-> 0,
     generate |-> 0, regenerate |-> 0, completion |-> NoCompletion]

\* the catalogs the workflow is explored on: row 1 takes every kind of cell
MainCatalogs ==
    { c \in Catalogs : \A i \in Rows : i # 1 => c[i] = StrCell(<<"a", "@", "h">>) }

Init ==
    /\ jobs_df \in MainCatalogs
    /\ user_profile = EmptyProfile
    /\ sent_emails = <<>>
    /\ session_state = [s \in Sessions |-> default_states]
    /\ ui = [s \in Sessions |-> default_ui]
    /\ token_expired = FALSE
    /\ client_secret \in BOOLEAN
    /\ skipped_ids = {}
    /\ skips_clicked = 0
    /\ mails_sent = 0
    /\ calls = NoCalls

\* ------------------------------------------------------------ rendering
\* get_user_data as the running script keeps it
Snapshot(profile) ==
    [applied_jobs |-> profile.applied_jobs, sent_count |-> profile.stats.sent_count,
     skipped_count |-> profile.stats.skipped_count]

\* main_app guard, lines 432-434
Hydrate(ss, profile) ==
    IF ss.cv_content = None THEN [ss EXCEPT !.cv_content = profile.translated_cv]
    ELSE ss

BlockedNever(ss) == FALSE

\* line 435: the CV is still missing after the hydration
Blocked(ss) == ss.cv_content = None

FinderSelectKeepsDraft(ss, df, nj) ==
    IF nj # NoJob /\ ss.current_job_id # nj
    THEN [ss EXCEPT !.current_job_id = nj,
                    !.current_job_details = JobDetails(df, nj)]
    ELSE ss

\* render_job_finder, lines 269-278
FinderSelect(ss, df, nj) ==
    IF nj # NoJob /\ ss.current_job_id # nj
    THEN [ss EXCEPT !.current_job_id = nj,
                    !.generated_email_content = NoContent,
                    !.current_job_details = JobDetails(df, nj)]
    ELSE ss

InitialAttachmentsAfterCv(uploaded_files) == Tail(uploaded_files)

\* line 415: st.session_state.attachments = uploaded_files
InitialAttachments(uploaded_files) == uploaded_files

\* One run of the script with no widget triggered, against 'profile':
\* the session state and the widgets it leaves.
Render(ss, u, df, profile) ==
    CASE ss.step = "auth" ->
           [ss |-> ss, scanned |-> FALSE,
            ui |-> [u EXCEPT !.page = "Job Finder", !.offered = NoJob,
                             !.saved_shown = FALSE]]
      [] ss.step = "upload_cv" ->
           [ss |-> IF u.uploaded # <<>>
                   THEN [ss EXCEPT !.attachments = InitialAttachments(u.uploaded)]
                   ELSE ss,
            scanned |-> FALSE,
            ui |-> [u EXCEPT !.page = "Job Finder", !.offered = NoJob,
                             !.saved_shown = (profile.translated_cv # None)]]
      [] ss.step = "main_app" ->
           LET ss1 == Hydrate(ss, profile)
               nj == NextJob(df, profile.applied_jobs)
           IN  IF Blocked(ss1)
               THEN [ss |-> ss1, scanned |-> FALSE,
                     ui |-> [u EXCEPT !.page = "Job Finder", !.offered = NoJob,
                                      !.saved_shown = FALSE, !.uploaded = <<>>]]
               ELSE IF u.page = "Job Finder"
               THEN [ss |-> FinderSelect(ss1, df, nj), scanned |-> TRUE,
                     ui |-> [u EXCEPT !.offered = nj, !.saved_shown = FALSE,
                                      !.uploaded = <<>>]]
               ELSE [ss |-> ss1, scanned |-> FALSE,
                     ui |-> [u EXCEPT !.offered = NoJob, !.saved_shown = FALSE,
                                      !.uploaded = <<>>]]

Idle(s) == ui[s].pc = "idle"
InMain(s) == session_state[s].step = "main_app" /\ session_state[s].cv_content # None

Commit(s, r) ==
    /\ session_state' = [session_state EXCEPT ![s] = r.ss]
    /\ ui' = [ui EXCEPT ![s] = r.ui]

\* ------------------------------------------------------------ step auth
\* gmail_authenticate, lines 56-59: which branch a loaded credential takes.
\* creds.valid is "has a token and is not expired"; a stored credential
\* always has a token.
AuthPathNoRefresh(creds, expired) ==
    IF creds.stored /\ ~expired THEN "valid" ELSE "consent"

AuthPath(creds, expired) ==
    IF creds.stored /\ ~expired THEN "valid"
    ELSE IF creds.stored /\ expired /\ creds.refresh_token THEN "refresh"
    ELSE "consent"

AfterAuthorizeUnchecked(client) == "upload_cv"

\* lines 402-403: the step after gmail_authenticate returned
AfterAuthorize(client) == IF client THEN "upload_cv" ELSE "auth"

\* "Authorize Gmail", lines 399-403 with gmail_authenticate, lines 47-72.
\* call_ok: the refresh or the consent flow returns (it raises otherwise, and
\* the handler ends there); without the client secret None is returned;
\* rt: whether the credential the consent flow grants has a refresh token.
Authorize(s, call_ok, rt) ==
    /\ Idle(s)
    /\ session_state[s].step = "auth"
    /\ LET creds == user_profile.gmail_token
           path == AuthPath(creds, token_expired)
           made == [NoCalls EXCEPT
                       !.refresh = IF path = "refresh" THEN 1 ELSE 0,
                       !.consent = IF path = "consent" /\ client_secret THEN 1 ELSE 0]
           granted == \/ path = "valid"
                      \/ path = "refresh" /\ call_ok
                      \/ path = "consent" /\ client_secret /\ call_ok
           returned == \/ granted
                       \/ path = "consent" /\ ~client_secret
           newcreds == IF path = "consent" THEN Credential(rt) ELSE creds
           profile == IF granted /\ path # "valid"
                      THEN [user_profile EXCEPT !.gmail_token = newcreds]
                      ELSE user_profile
       IN  /\ path = "valid" => (call_ok /\ rt)
           /\ path = "refresh" => rt
           /\ (path = "consent" /\ (~client_secret \/ ~call_ok)) => rt
           /\ (path = "consent" /\ ~client_secret) => call_ok
           /\ calls' = made
           /\ user_profile' = profile
           /\ token_expired' = IF granted /\ path # "valid" THEN FALSE
                               ELSE token_expired
           /\ IF returned
              THEN Commit(s, Render([session_state[s] EXCEPT
                                        !.gmail_service = granted,
                                        !.step = AfterAuthorize(granted)],
                                    ui[s], jobs_df, profile))
              ELSE UNCHANGED <<session_state, ui>>
    /\ UNCHANGED <<jobs_df, sent_emails, client_secret, skipped_ids, skips_clicked,
                   mails_sent>>

\* the clock passes the expiry of the stored credential
TokenExpires ==
    /\ user_profile.gmail_token.stored
    /\ ~token_expired
    /\ token_expired' = TRUE
    /\ calls' = NoCalls
    /\ UNCHANGED <<jobs_df, user_profile, sent_emails, session_state, ui,
                   client_secret, skipped_ids, skips_clicked, mails_sent>>

\* ------------------------------------------------------------ step upload_cv
\* the operator puts files into the uploader, lines 413-417
UploadFiles(s, files) ==
    /\ Idle(s)
    /\ session_state[s].step = "upload_cv"
    /\ Commit(s, Render(session_state[s], [ui[s] EXCEPT !.uploaded = files],
                        jobs_df, user_profile))
    /\ calls' = NoCalls
    /\ UNCHANGED <<jobs_df, user_profile, sent_emails, token_expired,
                   client_secret, skipped_ids, skips_clicked, mails_sent>>

\* "Use previously saved CV", lines 407-411
UseSavedCV(s) ==
    /\ Idle(s)
    /\ session_state[s].step = "upload_cv"
    /\ ui[s].saved_shown
    /\ LET r == IF user_profile.translated_cv # None
                THEN Render([session_state[s] EXCEPT
                                !.cv_content = user_profile.translated_cv,
                                !.step = "main_app"],
                            ui[s], jobs_df, user_profile)
                ELSE Render(session_state[s], ui[s], jobs_df, user_profile)
       IN  /\ Commit(s, r)
           /\ calls' = NoCalls
    /\ UNCHANGED <<jobs_df, user_profile, sent_emails, token_expired,
                   client_secret, skipped_ids, skips_clicked, mails_sent>>

\* lines 422-428: what Confirm makes of the CV text
ConfirmBothTranslate(lang, cv_text, call_ok) ==
    [calls |-> 1, cv_content |-> translate_cv_text(cv_text, call_ok), save |-> TRUE]

ConfirmRawText(lang, cv_text, call_ok) ==
    IF lang = "English"
    THEN [calls |-> 1, cv_content |-> cv_text, save |-> TRUE]
    ELSE [calls |-> 0, cv_content |-> cv_text, save |-> FALSE]

ConfirmCv(lang, cv_text, call_ok) ==
    IF lang = "English"
    THEN [calls |-> 1, cv_content |-> translate_cv_text(cv_text, call_ok),
          save |-> TRUE]
    ELSE [calls |-> 0, cv_content |-> cv_text, save |-> FALSE]

\* "Confirm and Proceed", lines 414-429
Confirm(s, lang, call_ok) ==
    /\ Idle(s)
    /\ session_state[s].step = "upload_cv"
    /\ ui[s].uploaded # <<>>
    /\ extract_text_from_pdf(ui[s].uploaded[1]) # None
    /\ lang = "German" => call_ok
    /\ LET cv_text == extract_text_from_pdf(ui[s].uploaded[1])
           c == ConfirmCv(lang, cv_text, call_ok)
           profile == IF c.save
                      THEN [user_profile EXCEPT !.translated_cv = c.cv_content]
                      ELSE user_profile
           r == Render([session_state[s] EXCEPT
                           !.attachments = InitialAttachments(ui[s].uploaded),
                           !.cv_content = c.cv_content,
                           !.step = "main_app"],
                       ui[s], jobs_df, profile)
       IN  /\ user_profile' = profile
           /\ Commit(s, r)
           /\ calls' = [NoCalls EXCEPT !.translate = c.calls]
    /\ UNCHANGED <<jobs_df, sent_emails, token_expired, client_secret,
                   skipped_ids, skips_clicked, mails_sent>>

\* "Go to Upload Step", lines 432-439
GoToUpload(s) ==
    /\ Idle(s)
    /\ session_state[s].step = "main_app"
    /\ session_state[s].cv_content = None
    /\ LET ss1 == Hydrate(session_state[s], user_profile)
           r == IF Blocked(ss1)
                THEN Render([ss1 EXCEPT !.step = "upload_cv"], ui[s], jobs_df,
                            user_profile)
                ELSE Render(ss1, ui[s], jobs_df, user_profile)
       IN  /\ Commit(s, r)
           /\ calls' = NoCalls
    /\ UNCHANGED <<jobs_df, user_profile, sent_emails, token_expired,
                   client_secret, skipped_ids, skips_clicked, mails_sent>>

\* ------------------------------------------------------------ step main_app
OnFinder(s) == Idle(s) /\ InMain(s) /\ ui[s].page = "Job Finder"
OnManual(s) == Idle(s) /\ InMain(s) /\ ui[s].page = "Add Manual Job"

\* line 302 / line 246: the Review/Send form was drawn by the last run
CatalogFormShown(s) ==
    /\ OnFinder(s)
    /\ ui[s].offered # NoJob
    /\ session_state[s].generated_email_content # NoContent

ManualFormShown(s) ==
    /\ OnManual(s)
    /\ session_state[s].manual_email_content # NoContent

\* line 302 in the run that handles a click on the catalog form
CatalogFormNow(r) ==
    r.ui.offered # NoJob /\ r.ss.generated_email_content # NoContent

\* the sidebar radio, lines 444 and 451-453
Navigate(s, p) ==
    /\ Idle(s)
    /\ InMain(s)
    /\ LET r == Render(session_state[s], [ui[s] EXCEPT !.page = p], jobs_df,
                       user_profile)
       IN  /\ Commit(s, r)
           /\ calls' = NoCalls
    /\ UNCHANGED <<jobs_df, user_profile, sent_emails, token_expired,
                   client_secret, skipped_ids, skips_clicked, mails_sent>>

\* "Prepare Application for Job #n", lines 290-295
Prepare(s, resp) ==
    /\ OnFinder(s)
    /\ ui[s].offered # NoJob
    /\ LET r == Render(session_state[s], ui[s], jobs_df, user_profile)
           clicked == r.ui.offered = ui[s].offered
           ss2 == IF clicked
                  THEN [r.ss EXCEPT !.generated_email_content =
                           generate_personalized_email(r.ss.cv_content,
                               r.ss.current_job_details, resp)]
                  ELSE r.ss
       IN  /\ ~clicked => resp = NoCompletion
           /\ Commit(s, [r EXCEPT !.ss = ss2])
           /\ calls' = IF clicked
                       THEN [NoCalls EXCEPT !.generate = 1, !.completion = resp]
                       ELSE NoCalls
    /\ UNCHANGED <<jobs_df, user_profile, sent_emails, token_expired,
                   client_secret, skipped_ids, skips_clicked, mails_sent>>

\* "Skip Job", line 297: the run up to the first write
SkipClick(s) ==
    /\ OnFinder(s)
    /\ ui[s].offered # NoJob
    /\ LET r == Render(session_state[s], ui[s], jobs_df, user_profile)
           u2 == IF r.ui.offered # NoJob
                 THEN [r.ui EXCEPT !.pc = "skip_union",
                                   !.user_data = Snapshot(user_profile)]
                 ELSE r.ui
       IN  /\ Commit(s, [r EXCEPT !.ui = u2])
           /\ calls' = NoCalls
           /\ skips_clicked' = IF r.ui.offered # NoJob THEN skips_clicked + 1
                              ELSE skips_clicked
    /\ UNCHANGED <<jobs_df, user_profile, sent_emails, token_expired,
                   client_secret, skipped_ids, mails_sent>>

\* update_user_data(db, {"applied_jobs": ArrayUnion([id])}), lines 188-190
MarkAppliedWith(s, applied_jobs, next_pc) ==
    /\ user_profile' = [user_profile EXCEPT !.applied_jobs = applied_jobs]
    /\ ui' = [ui EXCEPT ![s].pc = next_pc]
    /\ calls' = NoCalls
    /\ UNCHANGED <<jobs_df, sent_emails, session_state, token_expired,
                   client_secret, skipped_ids, skips_clicked, mails_sent>>

SkipUnionOverwrite(s) ==
    /\ ui[s].pc = "skip_union"
    /\ MarkAppliedWith(s, {Str(session_state[s].current_job_details.job_id)},
                       "skip_inc")

SkipUnionNotWritten(s) ==
    /\ ui[s].pc = "skip_union"
    /\ MarkAppliedWith(s, user_profile.applied_jobs, "skip_inc")

\* line 298
SkipUnion(s) ==
    /\ ui[s].pc = "skip_union"
    /\ MarkAppliedWith(s, user_profile.applied_jobs \cup
                          {Str(session_state[s].current_job_details.job_id)},
                       "skip_inc")

\* update({'stats.<name>': Increment(1)}), then current_job_id = None and
\* st.rerun(): lines 299-300 and 366-370
CountWith(s, name, count) ==
    LET profile == [user_profile EXCEPT !.stats[name] = count]
        r == Render([session_state[s] EXCEPT !.current_job_id = NoJob],
                    [ui[s] EXCEPT !.pc = "idle", !.user_data = NoData],
                    jobs_df, profile)
    IN  /\ user_profile' = profile
        /\ Commit(s, r)
        /\ calls' = NoCalls
        /\ UNCHANGED <<jobs_df, sent_emails, token_expired, client_secret,
                       skips_clicked, mails_sent>>

SkipIncReadModifyWrite(s) ==
    /\ ui[s].pc = "skip_inc"
    /\ CountWith(s, "skipped_count", ui[s].user_data.skipped_count + 1)
    /\ skipped_ids' = skipped_ids \cup {session_state[s].current_job_details.job_id}

\* lines 299-300
SkipInc(s) ==
    /\ ui[s].pc = "skip_inc"
    /\ CountWith(s, "skipped_count", user_profile.stats.skipped_count + 1)
    /\ skipped_ids' = skipped_ids \cup {session_state[s].current_job_details.job_id}

save_sent_email_twice(emails, contact_email, details) ==
    LET record == [recipient |-> contact_email, job_title |-> details.job_title]
    IN  emails \o <<record, record>>

\* save_sent_email, lines 192-194 and 359-363
save_sent_email(emails, contact_email, details) ==
    Append(emails, [recipient |-> contact_email, job_title |-> details.job_title])

SendVerdictIgnoresResult(attachments, new, mail_ok) ==
    IF attachments \o new = <<>> THEN "rejected" ELSE "sent"

\* lines 354-358: what becomes of a submission
SendVerdictNoCheck(attachments, new, mail_ok) ==
    IF mail_ok THEN "sent" ELSE "failed"

SendVerdict(attachments, new, mail_ok) ==
    IF attachments \o new = <<>> THEN "rejected"
    ELSE IF mail_ok THEN "sent"
    ELSE "failed"

\* "Send Application" on the catalog form, lines 353-363: the run up to the
\* first write to the profile.  new: the files picked in the form; mail_ok:
\* send_email_logic returns True.
SendClick(s, new, mail_ok) ==
    /\ CatalogFormShown(s)
    /\ mail_ok => Len(sent_emails) < MaxSent
    /\ LET r == Render(session_state[s], ui[s], jobs_df, user_profile)
           verdict == SendVerdict(r.ss.attachments, new, mail_ok)
           details == r.ss.current_job_details
       IN  IF ~CatalogFormNow(r)
           THEN /\ new = <<>> /\ ~mail_ok
                /\ Commit(s, r)
                /\ calls' = NoCalls
                /\ UNCHANGED <<sent_emails, mails_sent>>
           ELSE IF verdict = "rejected"
           THEN /\ ~mail_ok
                /\ Commit(s, r)
                /\ calls' = [NoCalls EXCEPT !.warning = 1]
                /\ UNCHANGED <<sent_emails, mails_sent>>
           ELSE IF verdict = "failed"
           THEN /\ Commit(s, r)
                /\ calls' = [NoCalls EXCEPT !.mail = 1]
                /\ UNCHANGED <<sent_emails, mails_sent>>
           ELSE /\ sent_emails' = save_sent_email(sent_emails,
                                                  details.contact_email, details)
                /\ mails_sent' = mails_sent + 1
                /\ Commit(s, [r EXCEPT !.ui.pc = "send_union",
                                       !.ui.user_data = Snapshot(user_profile)])
                /\ calls' = [NoCalls EXCEPT !.mail = 1]
    /\ UNCHANGED <<jobs_df, user_profile, token_expired, client_secret, skipped_ids,
                   skips_clicked>>

\* line 365
SendUnion(s) ==
    /\ ui[s].pc = "send_union"
    /\ MarkAppliedWith(s, user_profile.applied_jobs \cup
                          {Str(session_state[s].current_job_details.job_id)},
                       "send_inc")

SendIncNoCount(s) ==
    /\ ui[s].pc = "send_inc"
    /\ CountWith(s, "sent_count", user_profile.stats.sent_count)
    /\ UNCHANGED skipped_ids

\* lines 366-370
SendInc(s) ==
    /\ ui[s].pc = "send_inc"
    /\ CountWith(s, "sent_count", user_profile.stats.sent_count + 1)
    /\ UNCHANGED skipped_ids

\* ------------------------------------------------------------ manual jobs
ManualContacts == { <<>>, <<"m", "@", "x">> }
ManualTexts == { "", "job text" }

\* "Generate Email from Details", lines 224-244
ManualSubmit(s, contact_email, job_description, resp) ==
    /\ OnManual(s)
    /\ session_state[s].manual_email_content = NoContent
    /\ LET r == Render(session_state[s], ui[s], jobs_df, user_profile)
           details == [job_id |-> NoJob, job_title |-> "Manual Entry",
                       contact_email |-> contact_email]
           filled == contact_email # <<>> /\ job_description # ""
           ss2 == IF filled
                  THEN [r.ss EXCEPT
                           !.manual_job_details = details,
                           !.manual_email_content =
                               generate_personalized_email(r.ss.cv_content,
                                                           details, resp)]
                  ELSE r.ss
       IN  /\ ~filled => resp = NoCompletion
           /\ Commit(s, Render(ss2, r.ui, jobs_df, user_profile))
           /\ calls' = IF filled
                       THEN [NoCalls EXCEPT !.generate = 1, !.completion = resp]
                       ELSE NoCalls
    /\ UNCHANGED <<jobs_df, user_profile, sent_emails, token_expired,
                   client_secret, skipped_ids, skips_clicked, mails_sent>>

ManualSentClearsJob(ss) ==
    [ss EXCEPT !.manual_email_content = NoContent, !.current_job_id = NoJob]

\* lines 364 and 368-369: what a successful manual send leaves in the session
ManualSent(ss) == [ss EXCEPT !.manual_email_content = NoContent]

\* "Send Application" on the manual form, lines 353-363 and 368-370
ManualSend(s, new, mail_ok) ==
    /\ ManualFormShown(s)
    /\ mail_ok => Len(sent_emails) < MaxSent
    /\ LET r == Render(session_state[s], ui[s], jobs_df, user_profile)
           verdict == SendVerdict(r.ss.attachments, new, mail_ok)
           details == r.ss.manual_job_details
       IN  IF verdict = "rejected"
           THEN /\ ~mail_ok
                /\ Commit(s, r)
                /\ calls' = [NoCalls EXCEPT !.warning = 1]
                /\ UNCHANGED <<sent_emails, mails_sent>>
           ELSE IF verdict = "failed"
           THEN /\ Commit(s, r)
                /\ calls' = [NoCalls EXCEPT !.mail = 1]
                /\ UNCHANGED <<sent_emails, mails_sent>>
           ELSE /\ sent_emails' = save_sent_email(sent_emails,
                                                  details.contact_email, details)
                /\ mails_sent' = mails_sent + 1
                /\ Commit(s, Render(ManualSent(r.ss), r.ui, jobs_df, user_profile))
                /\ calls' = [NoCalls EXCEPT !.mail = 1]
    /\ UNCHANGED <<jobs_df, user_profile, token_expired, client_secret, skipped_ids,
                   skips_clicked>>

\* ------------------------------------------------------------ the form
RegeneratedAlwaysCatalog(ss, is_manual, new_content) ==
    [ss EXCEPT !.generated_email_content = new_content]

\* lines 325-328: where the new content goes
Regenerated(ss, is_manual, new_content) ==
    IF is_manual THEN [ss EXCEPT !.manual_email_content = new_content]
    ELSE [ss EXCEPT !.generated_email_content = new_content]

\* "Regenerate Email", lines 318-329
Regenerate(s, resp) ==
    /\ CatalogFormShown(s) \/ ManualFormShown(s)
    /\ LET r == Render(session_state[s], ui[s], jobs_df, user_profile)
           is_manual == ui[s].page = "Add Manual Job"
           drawn == is_manual \/ CatalogFormNow(r)
           details == IF is_manual THEN r.ss.manual_job_details
                      ELSE r.ss.current_job_details
           ss2 == IF ~drawn THEN r.ss
                  ELSE Regenerated(r.ss, is_manual,
                           generate_personalized_email(r.ss.cv_content, details, resp))
           r2 == Render(ss2, r.ui, jobs_df, user_profile)
       IN  /\ ~drawn => resp = NoCompletion
           /\ Commit(s, r2)
           /\ calls' = IF drawn
                       THEN [NoCalls EXCEPT !.generate = 1, !.regenerate = 1,
                                            !.completion = resp]
                       ELSE NoCalls
    /\ UNCHANGED <<jobs_df, user_profile, sent_emails, token_expired,
                   client_secret, skipped_ids, skips_clicked, mails_sent>>

\* list.pop(i)
Pop(seq, i) == SubSeq(seq, 1, i - 1) \o SubSeq(seq, i + 1, Len(seq))

\* "Remove" next to an attachment, lines 343-351
RemoveAttachment(s, i) ==
    /\ CatalogFormShown(s) \/ ManualFormShown(s)
    /\ i \in 1 .. Len(session_state[s].attachments)
    /\ LET r == Render(session_state[s], ui[s], jobs_df, user_profile)
           drawn == ui[s].page = "Add Manual Job" \/ CatalogFormNow(r)
           ss2 == IF drawn THEN [r.ss EXCEPT !.attachments = Pop(@, i)] ELSE r.ss
           r2 == Render(ss2, r.ui, jobs_df, user_profile)
       IN  /\ Commit(s, r2)
           /\ calls' = NoCalls
    /\ UNCHANGED <<jobs_df, user_profile, sent_emails, token_expired,
                   client_secret, skipped_ids, skips_clicked, mails_sent>>

\* the browser session ends and a new one starts with the defaults
SessionReset(s) ==
    /\ Idle(s)
    /\ session_state[s] # default_states
    /\ session_state' = [session_state EXCEPT ![s] = default_states]
    /\ ui' = [ui EXCEPT ![s] = default_ui]
    /\ calls' = NoCalls
    /\ UNCHANGED <<jobs_df, user_profile, sent_emails, token_expired,
                   client_secret, skipped_ids, skips_clicked, mails_sent>>

\* ------------------------------------------------------------ specification
\* every interaction of one session, with every input
Step(s) ==
    \/ \E call_ok \in BOOLEAN : Authorize(s, call_ok, TRUE)
    \/ \E files \in Uploads : UploadFiles(s, files)
    \/ UseSavedCV(s)
    \/ \E lang \in {"English", "German"}, call_ok \in BOOLEAN : Confirm(s, lang, call_ok)
    \/ GoToUpload(s)
    \/ \E p \in Pages : Navigate(s, p)
    \/ \E resp \in Responses : Prepare(s, resp)
    \/ SkipClick(s)
    \/ SkipUnion(s)
    \/ SkipInc(s)
    \/ \E new \in Picks, mail_ok \in BOOLEAN : SendClick(s, new, mail_ok)
    \/ SendUnion(s)
    \/ SendInc(s)
    \/ \E c \in ManualContacts, d \in ManualTexts, resp \in Responses :
          ManualSubmit(s, c, d, resp)
    \/ \E new \in Picks, mail_ok \in BOOLEAN : ManualSend(s, new, mail_ok)
    \/ \E resp \in Responses : Regenerate(s, resp)
    \/ \E i \in 1 .. 2 : RemoveAttachment(s, i)
    \/ SessionReset(s)

\* One operator in one browser session at a time: the whole workflow.
Next == Step("s1")

Spec == Init /\ [][Next]_vars

\* Two browser sessions on one profile.  Each operator goes the shortest way
\* to the Job Finder (a German CV, no translation) and then prepares, skips
\* and sends; the writes of the two handlers interleave.
StepFinder(s) ==
    \/ Authorize(s, TRUE, TRUE)
    \/ UploadFiles(s, <<"cv.pdf">>)
    \/ Confirm(s, "German", TRUE)
    \/ Navigate(s, "Job Finder")
    \/ Prepare(s, Completion(Betreff \o <<" ", "s">> \o Separator \o <<"b">>))
    \/ SkipClick(s)
    \/ SkipUnion(s)
    \/ SkipInc(s)
    \/ \E mail_ok \in BOOLEAN : SendClick(s, <<>>, mail_ok)
    \/ SendUnion(s)
    \/ SendInc(s)

NextSessions == \E s \in Sessions : StepFinder(s)

SpecSessions == Init /\ [][NextSessions]_vars

\* Authorization alone: both sessions authorize, the stored credential
\* expires, sessions end and start again.
NextAuth ==
    \/ \E s \in Sessions, call_ok \in BOOLEAN, rt \in BOOLEAN : Authorize(s, call_ok, rt)
    \/ TokenExpires
    \/ \E s \in Sessions, files \in Uploads : UploadFiles(s, files)
    \/ \E s \in Sessions : SessionReset(s)

SpecAuth == Init /\ [][NextAuth]_vars

\* The selector as a function of its inputs: every catalog and every applied
\* set (the ids of the rows and one id of no row), read by a session that is
\* on the Dashboard and turns to the Job Finder.
AppliedIds == { Str(i) : i \in 0 .. NRows }

InitSelect ==
    /\ jobs_df \in Catalogs
    /\ \E A \in SUBSET AppliedIds :
          user_profile = [EmptyProfile EXCEPT
                             !.gmail_token = Credential(TRUE),
                             !.applied_jobs = A,
                             !.stats.skipped_count = Cardinality(A)]
    /\ sent_emails = <<>>
    /\ session_state =
          [s \in Sessions |->
              IF s = "s1"
              THEN [default_states EXCEPT !.step = "main_app",
                                          !.gmail_service = TRUE,
                                          !.cv_content = "cv_text",
                                          !.attachments = <<"cv.pdf">>]
              ELSE default_states]
    /\ ui = [s \in Sessions |->
                IF s = "s1" THEN [default_ui EXCEPT !.page = "Dashboard"]
                ELSE default_ui]
    /\ token_expired = FALSE
    /\ client_secret = TRUE
    /\ skipped_ids = {}
    /\ skips_clicked = 0
    /\ mails_sent = 0
    /\ calls = NoCalls

NextSelect == \E p \in {"Job Finder", "Dashboard"} : Navigate("s1", p)

SpecSelect == InitSelect /\ [][NextSelect]_vars

\* Draft generation as a function of the completion: a session that has been
\* offered row 0 prepares and regenerates, and the model answers with every
\* text of up to MaxPieces pieces (labels, separators, blanks, letters) or
\* fails.
Pieces == { Betreff, Subject, Separator, <<" ">>, <<"x">> }

RECURSIVE Texts(_)
Texts(n) ==
    IF n = 0 THEN { <<>> }
    ELSE LET T == Texts(n - 1) IN T \cup { p \o x : p \in Pieces, x \in T }

ParseResponses == { Completion(x) : x \in Texts(MaxPieces) } \cup { NoCompletion }

InitParse ==
    /\ jobs_df = [i \in Rows |-> StrCell(<<"a", "@", "h">>)]
    /\ user_profile = [EmptyProfile EXCEPT !.gmail_token = Credential(TRUE)]
    /\ sent_emails = <<>>
    /\ session_state =
          [s \in Sessions |->
              IF s = "s1"
              THEN [default_states EXCEPT
                       !.step = "main_app",
                       !.gmail_service = TRUE,
                       !.cv_content = "cv_text",
                       !.attachments = <<"cv.pdf">>,
                       !.current_job_id = 0,
                       !.current_job_details = JobDetails(jobs_df, 0)]
              ELSE default_states]
    /\ ui = [s \in Sessions |->
                IF s = "s1" THEN [default_ui EXCEPT !.offered = 0] ELSE default_ui]
    /\ token_expired = FALSE
    /\ client_secret = TRUE
    /\ skipped_ids = {}
    /\ skips_clicked = 0
    /\ mails_sent = 0
    /\ calls = NoCalls

NextParse ==
    \E resp \in ParseResponses : Prepare("s1", resp) \/ Regenerate("s1", resp)

SpecParse == InitParse /\ [][NextParse]_vars

\* The operator works through the catalog: a session in the Job Finder, for
\* every catalog and every applied set, prepares, skips and sends, and looks
\* at the other pages in between.  The operator keeps acting on the job that
\* is offered: the operator comes back to the Job Finder, whenever a Skip or a
\* Send is possible again and again one is made, and a handler that has
\* started runs to its end.
InitExhaust ==
    /\ jobs_df \in Catalogs
    /\ \E A \in SUBSET AppliedIds :
          user_profile = [EmptyProfile EXCEPT
                             !.gmail_token = Credential(TRUE),
                             !.applied_jobs = A,
                             !.stats.skipped_count = Cardinality(A)]
    /\ sent_emails = <<>>
    /\ LET ss0 == [default_states EXCEPT !.step = "main_app",
                                        !.gmail_service = TRUE,
                                        !.cv_content = "cv_text",
                                        !.attachments = <<"cv.pdf">>]
           r == Render(ss0, default_ui, jobs_df, user_profile)
       IN  /\ session_state = [s \in Sessions |->
                                  IF s = "s1" THEN r.ss ELSE default_states]
           /\ ui = [s \in Sessions |-> IF s = "s1" THEN r.ui ELSE default_ui]
    /\ token_expired = FALSE
    /\ client_secret = TRUE
    /\ skipped_ids = {}
    /\ skips_clicked = 0
    /\ mails_sent = 0
    /\ calls = NoCalls

\* a Skip or a successful catalog Send, from the click to the rerun
Acting(s) ==
    \/ SkipClick(s)
    \/ SkipUnion(s)
    \/ SkipInc(s)
    \/ SendClick(s, <<>>, TRUE)
    \/ SendUnion(s)
    \/ SendInc(s)

NextExhaust ==
    \/ Acting("s1")
    \/ SendClick("s1", <<>>, FALSE)
    \/ \E resp \in Responses : Prepare("s1", resp)
    \/ \E p \in Pages : Navigate("s1", p)

SpecExhaust ==
    /\ InitExhaust
    /\ [][NextExhaust]_vars
    /\ WF_vars(Navigate("s1", "Job Finder"))
    /\ SF_vars(Acting("s1"))

\* ------------------------------------------------------------ claims
\* the stored credential as the operator would describe it
CredKind(creds, expired) ==
    IF ~creds.stored THEN "absent"
    ELSE IF ~expired THEN "valid"
    ELSE IF creds.refresh_token THEN "expired_refreshable"
    ELSE "expired_dead"


\* the catalog jobs a SentEmail record exists for
SentJobs ==
    { j \in Rows : \E k \in DOMAIN sent_emails : sent_emails[k].job_title = Title(j) }

RecordsOf(j) == { k \in DOMAIN sent_emails : sent_emails[k].job_title = Title(j) }

Quiescent == \A s \in Sessions : Idle(s)

\* the rows the spec calls eligible for an applied set
SpecEligible(A) ==
    { i \in Rows : /\ Str(i) \notin A
                   /\ jobs_df[i].isstr
                   /\ \E k \in DOMAIN jobs_df[i].chars : jobs_df[i].chars[k] = "@" }

\* C1: the job the Job Finder offers is the smallest row index i with str(i)
\* not in applied_jobs and a contact email that is a string containing '@';
\* the catalog is reported exhausted exactly when there is no such row.
C1_JobSelection ==
    \A s \in Sessions :
        (Idle(s) /\ InMain(s) /\ ui[s].page = "Job Finder") =>
            LET E == SpecEligible(user_profile.applied_jobs)
            IN  /\ (ui[s].offered = NoJob) <=> (E = {})
                /\ E # {} => /\ ui[s].offered \in E
                             /\ \A i \in E : ui[s].offered <= i

\* row 0 is applied, row 1 has no usable email, row 2 is offered
C1_Witness ==
    /\ ui["s1"].page = "Job Finder"
    /\ ui["s1"].offered = 2
    /\ "0" \in user_profile.applied_jobs
    /\ ~HasAt(jobs_df[1].chars)

\* C2: applied_jobs never loses an element, and when no handler is in
\* progress it is exactly the set of ids of the jobs skipped or sent so far
\* (the profile starts empty).
C2_AppliedMonotone ==
    /\ [](Quiescent =>
            user_profile.applied_jobs = { Str(j) : j \in skipped_ids \cup SentJobs })
    /\ [][user_profile.applied_jobs \subseteq user_profile'.applied_jobs]_vars

\* one job was skipped and another sent, and every handler has finished
C2_Witness ==
    /\ Quiescent
    /\ skipped_ids # {}
    /\ SentJobs # {}
    /\ skipped_ids # SentJobs

\* C3: in every state of the store, applied_jobs holds the id of every catalog
\* job a SentEmail record exists for and of every job that has been skipped.
C3_ProfileInvariant ==
    \A j \in SentJobs \cup skipped_ids : Str(j) \in user_profile.applied_jobs

\* C4: a job that has been skipped or sent is never returned by a later run
\* of the selector, in any session; and across a Skip or a successful Send the
\* job a session is offered strictly increases.
C4_NoReoffer ==
    [][\A s \in Sessions :
          /\ (ui'[s].offered # NoJob /\ ui'[s].offered # ui[s].offered) =>
                ui'[s].offered \notin (SentJobs \cup skipped_ids)
          /\ (ui[s].pc \in {"skip_inc", "send_inc"} /\ ui'[s].pc = "idle"
                /\ ui'[s].offered # NoJob) =>
                ui'[s].offered > ui[s].offered]_vars

\* C5: no catalog job has two SentEmail records.
C5_NoDuplicate ==
    \A j \in Rows : Cardinality(RecordsOf(j)) <= 1

\* the Skip handlers that are between their click and their Increment
SkipsInFlight == { s \in Sessions : ui[s].pc \in {"skip_union", "skip_inc"} }

\* C6: every Skip whose handler has finished has raised stats.skipped_count by
\* one, whatever another session's Skip did in between, and the id it skipped
\* is in applied_jobs.
C6_CounterAtomicity ==
    /\ user_profile.stats.skipped_count = skips_clicked - Cardinality(SkipsInFlight)
    /\ \A j \in skipped_ids : Str(j) \in user_profile.applied_jobs

\* two Skip handlers ran at the same time and both have finished: both read
\* the profile before either wrote, and the count is 2
C6_Witness ==
    /\ Quiescent
    /\ skips_clicked = 2
    /\ user_profile.stats.skipped_count = 2
    /\ user_profile.applied_jobs = {"0"}

\* the drafts and the job of a session
InFlight(ss) ==
    <<ss.current_job_id, ss.current_job_details, ss.generated_email_content,
      ss.manual_email_content, ss.manual_job_details>>

\* C7: a submission of the Review/Send form with no attachment in the session
\* list and none picked in the form is rejected with the warning and without
\* a send attempt; no SentEmail record is added, and the profile (applied_jobs,
\* stats), current_job_id and the drafts are as before.
C7_SendPrecondition ==
    [][\A s \in Sessions, mail_ok \in BOOLEAN :
          LET r == Render(session_state[s], ui[s], jobs_df, user_profile)
              submitted == \/ SendClick(s, <<>>, mail_ok) /\ CatalogFormNow(r)
                           \/ ManualSend(s, <<>>, mail_ok)
          IN  (submitted /\ session_state[s].attachments = <<>>) =>
                 /\ calls'.mail = 0
                 /\ calls'.warning = 1
                 /\ sent_emails' = sent_emails
                 /\ mails_sent' = mails_sent
                 /\ user_profile' = user_profile
                 /\ InFlight(session_state'[s]) = InFlight(session_state[s])
                 /\ ui'[s].pc = "idle"]_vars

\* a submission with no attachment has just been rejected on the catalog form
C7_Witness ==
    /\ calls.warning = 1
    /\ CatalogFormShown("s1")
    /\ session_state["s1"].attachments = <<>>

\* C8: there are exactly as many SentEmail records as successful sends, and a
\* step only ever appends to the records it finds.
C8_OneRecordPerSend ==
    /\ [](Len(sent_emails) = mails_sent)
    /\ [][/\ Len(sent_emails') >= Len(sent_emails)
          /\ SubSeq(sent_emails', 1, Len(sent_emails)) = sent_emails
          /\ Len(sent_emails') - Len(sent_emails) = calls'.mail * (mails_sent' - mails_sent)
          /\ mails_sent' - mails_sent \in {0, 1}]_vars

\* a catalog send and a manual send have both succeeded
C8_Witness ==
    /\ mails_sent = 2
    /\ \E k \in DOMAIN sent_emails : sent_emails[k].job_title = "Manual Entry"
    /\ SentJobs # {}

\* C9: with a valid stored credential authorization neither refreshes nor asks
\* for consent; with an expired one that has a refresh token it refreshes and
\* does not ask for consent; consent is asked for only when nothing is stored
\* or the stored credential is expired without a refresh token.
C9_Reauthorization ==
    [][\A s \in Sessions, call_ok \in BOOLEAN, rt \in BOOLEAN :
          Authorize(s, call_ok, rt) =>
             LET kind == CredKind(user_profile.gmail_token, token_expired)
             IN  /\ kind = "valid" => (calls'.refresh = 0 /\ calls'.consent = 0)
                 /\ kind = "expired_refreshable" =>
                       (calls'.refresh = 1 /\ calls'.consent = 0)
                 /\ calls'.consent = 1 => kind \in {"absent", "expired_dead"}
                 /\ calls'.refresh = 1 => kind = "expired_refreshable"]_vars

\* a session has just been authorized by a refresh of the stored credential
C9_Witness ==
    /\ calls.refresh = 1
    /\ calls.consent = 0
    /\ ~token_expired
    /\ \E s \in Sessions : session_state[s].step = "upload_cv"

\* C10: Confirm with "English" makes one translation call and its result is
\* both cv_content and the persisted translated_cv, never the extracted text;
\* Confirm with "German" makes no call, cv_content is the extracted text and
\* translated_cv is as before; either way step is main_app.
C10_LanguageBranch ==
    [][\A s \in Sessions, call_ok \in BOOLEAN :
          LET cv_text == extract_text_from_pdf(ui[s].uploaded[1])
          IN  /\ Confirm(s, "English", call_ok) =>
                    /\ calls'.translate = 1
                    /\ session_state'[s].cv_content = user_profile'.translated_cv
                    /\ session_state'[s].cv_content # cv_text
                    /\ call_ok => session_state'[s].cv_content = "de:" \o cv_text
                    /\ session_state'[s].step = "main_app"
              /\ Confirm(s, "German", call_ok) =>
                    /\ calls'.translate = 0
                    /\ session_state'[s].cv_content = cv_text
                    /\ user_profile'.translated_cv = user_profile.translated_cv
                    /\ session_state'[s].step = "main_app"]_vars

\* an English CV has just been confirmed and translated
C10_Witness ==
    /\ calls.translate = 1
    /\ session_state["s1"].step = "main_app"
    /\ session_state["s1"].cv_content = "de:cv_text"
    /\ user_profile.translated_cv = "de:cv_text"

\* the steps of the manual flow
ManualFlow(s) ==
    \/ \E c \in ManualContacts, d \in ManualTexts, resp \in Responses :
          ManualSubmit(s, c, d, resp)
    \/ \E resp \in Responses : Regenerate(s, resp) /\ ui[s].page = "Add Manual Job"
    \/ \E new \in Picks, mail_ok \in BOOLEAN : ManualSend(s, new, mail_ok)

\* C11: no step of the manual flow (submission of the details, Regenerate on
\* the manual form, a manual Send whatever its outcome) depends on applied_jobs
\* or changes applied_jobs, the counters or current_job_id; a successful
\* manual send appends one SentEmail record for the manual details and
\* changes nothing in the session but the manual draft, which it clears.
C11_ManualIsolation ==
    /\ [](\A s \in Sessions :
            OnManual(s) =>
               \A A \in SUBSET AppliedIds :
                  Render(session_state[s], ui[s], jobs_df,
                         [user_profile EXCEPT !.applied_jobs = A])
                    = Render(session_state[s], ui[s], jobs_df, user_profile))
    /\ [][\A s \in Sessions :
            /\ \/ /\ user_profile' = user_profile
                  /\ session_state'[s].current_job_id = session_state[s].current_job_id
                  /\ session_state'[s].current_job_details =
                        session_state[s].current_job_details
               \/ ~(OnManual(s) /\ ManualFlow(s))
            /\ \A new \in Picks :
                  \/ /\ sent_emails' = Append(sent_emails,
                           [recipient |-> session_state[s].manual_job_details.contact_email,
                            job_title |-> "Manual Entry"])
                     /\ session_state'[s] =
                           [session_state[s] EXCEPT !.manual_email_content = NoContent]
                  \/ ~(/\ ManualFormShown(s)
                       /\ session_state[s].attachments \o new # <<>>
                       /\ ManualSend(s, new, TRUE))]_vars

\* a manual send has succeeded in a session that holds a catalog job
C11_Witness ==
    /\ ui["s1"].page = "Add Manual Job"
    /\ calls.mail = 1
    /\ mails_sent = 1
    /\ sent_emails[1].job_title = "Manual Entry"
    /\ session_state["s1"].manual_email_content = NoContent
    /\ session_state["s1"].current_job_id # NoJob
    /\ user_profile.applied_jobs = {}

\* the subject the specification describes: the text stripped, one leading
\* label taken off, stripped again
OneLeadingLabelOff(text) ==
    LET x == Strip(text)
    IN  IF IsPrefix(Betreff, x) THEN Strip(Drop(x, Len(Betreff)))
        ELSE IF IsPrefix(Subject, x) THEN Strip(Drop(x, Len(Subject)))
        ELSE x

\* C12: for the response r of a draft generation: if r contains the separator,
\* the subject is the text before the first separator with surrounding
\* whitespace and at most one leading label removed (other occurrences kept)
\* and the body is the text after it, stripped; if r has no separator the
\* subject is the fallback subject and the body is r; if the call failed the
\* body is the placeholder.
C12_DraftParsing ==
    \A s \in Sessions :
       (calls.generate = 1 /\ session_state[s].generated_email_content # NoContent) =>
          LET r == call_openai_api(calls.completion)
              d == session_state[s].generated_email_content
          IN  /\ (r.ok /\ Contains(r.chars, Separator)) =>
                    /\ d.subject = OneLeadingLabelOff(SplitFirst(r.chars, Separator)[1])
                    /\ d.body = Strip(SplitFirst(r.chars, Separator)[2])
              /\ (r.ok /\ ~Contains(r.chars, Separator)) =>
                    /\ d.subject = FallbackSubject
                    /\ d.body = r.chars
              /\ ~r.ok => d.body = Placeholder

\* the send of a submission of session s fails in this step
SendFails(s) ==
    \E new \in Picks :
       /\ session_state[s].attachments \o new # <<>>
       /\ \/ /\ SendClick(s, new, FALSE)
             /\ CatalogFormNow(Render(session_state[s], ui[s], jobs_df, user_profile))
          \/ ManualSend(s, new, FALSE)

\* C13: when the mailbox send of a submission fails, no SentEmail record is
\* created, the profile (applied_jobs, both counters) is unchanged, the
\* session (step, current_job_id, both drafts, attachments) is unchanged, and
\* the Review/Send form is shown again for the same job.
C13_FailedSend ==
    [][\A s \in Sessions :
          SendFails(s) =>
             /\ calls'.mail = 1
             /\ sent_emails' = sent_emails
             /\ mails_sent' = mails_sent
             /\ user_profile' = user_profile
             /\ session_state'[s] = session_state[s]
             /\ ui'[s].pc = "idle"
             /\ ui'[s].offered = ui[s].offered
             /\ ui'[s].page = ui[s].page
             /\ (CatalogFormShown(s) \/ ManualFormShown(s))'
             /\ CatalogFormShown(s) =>
                   session_state'[s].generated_email_content.about =
                      Title(ui'[s].offered)]_vars

\* a catalog send has just failed and the form of the same job is shown
C13_Witness ==
    /\ calls.mail = 1
    /\ mails_sent = 0
    /\ sent_emails = <<>>
    /\ CatalogFormShown("s1")
    /\ session_state["s1"].current_job_id = 0
    /\ user_profile.applied_jobs = {}
    /\ user_profile.stats.sent_count = 0

\* C14: when the translation call fails on the confirmation of an English CV,
\* the confirmation has no effect: step stays upload_cv, cv_content is as
\* before and the persisted translated_cv keeps its value.
C14_NoPartialCommit ==
    [][\A s \in Sessions :
          Confirm(s, "English", FALSE) =>
             /\ session_state'[s].step = "upload_cv"
             /\ session_state'[s].cv_content = session_state[s].cv_content
             /\ user_profile'.translated_cv = user_profile.translated_cv]_vars

\* C15: between interactions step is auth exactly when the session has no
\* mailbox client, and cv_content is absent while step is auth; step leaves
\* auth only by an authorization that returned a client, and a session never
\* goes back to auth (only a new session starts there).
C15_StepData ==
    /\ [](\A s \in Sessions :
            /\ (session_state[s].step = "auth") <=> ~session_state[s].gmail_service
            /\ session_state[s].step = "auth" => session_state[s].cv_content = None)
    /\ [][\A s \in Sessions :
            /\ (session_state[s].step = "auth" /\ session_state'[s].step # "auth") =>
                  /\ \E call_ok \in BOOLEAN, rt \in BOOLEAN : Authorize(s, call_ok, rt)
                  /\ session_state'[s].gmail_service
                  /\ session_state'[s].step = "upload_cv"
            /\ (session_state[s].step # "auth" /\ session_state'[s].step = "auth") =>
                  SessionReset(s)]_vars

\* a session has left auth by an authorization and reached main_app with a CV
C15_Witness ==
    /\ user_profile.gmail_token.stored
    /\ session_state["s1"].step = "main_app"
    /\ session_state["s1"].gmail_service
    /\ session_state["s1"].cv_content # None

\* session s is in main_app and has no CV even after the hydration
NoCvInMain(s) ==
    /\ session_state[s].step = "main_app"
    /\ Hydrate(session_state[s], user_profile).cv_content = None

\* C16: while step is main_app and cv_content is absent also after the
\* hydration from translated_cv, no sub-page is drawn (no job is offered, no
\* form is shown), no draft generation and no send is made, and the only
\* interaction that changes the session is the return to upload_cv (or the
\* start of a new session); this covers the confirmation whose translation
\* gave nothing.
C16_MainAppGuard ==
    /\ [](\A s \in Sessions :
            (Idle(s) /\ session_state[s].step = "main_app"
                     /\ session_state[s].cv_content = None) =>
               /\ ui[s].offered = NoJob
               /\ session_state[s].generated_email_content = NoContent
               /\ session_state[s].manual_email_content = NoContent
               /\ ~CatalogFormShown(s) /\ ~ManualFormShown(s))
    /\ [][\A s \in Sessions :
            NoCvInMain(s) =>
               /\ calls'.generate = 0
               /\ calls'.mail = 0
               /\ sent_emails' = sent_emails
               /\ (session_state'[s] # session_state[s] \/ ui'[s] # ui[s]) =>
                     \/ GoToUpload(s) /\ session_state'[s].step = "upload_cv"
                     \/ SessionReset(s)]_vars

\* a confirmation whose translation failed has put the session in main_app
\* without a CV
C16_Witness ==
    /\ calls.translate = 1
    /\ session_state["s1"].step = "main_app"
    /\ session_state["s1"].cv_content = None
    /\ user_profile.translated_cv = None
    /\ ui["s1"].offered = NoJob

\* C17: after the confirmation of an upload the first file is the one the CV
\* text was read from, and the session attachment list is the files after the
\* first, in upload order.
C17_InitialAttachments ==
    [][\A s \in Sessions, lang \in {"English", "German"}, call_ok \in BOOLEAN :
          Confirm(s, lang, call_ok) =>
             /\ lang = "German" =>
                   session_state'[s].cv_content = extract_text_from_pdf(ui[s].uploaded[1])
             /\ session_state'[s].attachments = Tail(ui[s].uploaded)]_vars

\* C17 as amended: the first file is the one the CV text is read from, and
\* the session attachment list is all the uploaded files, the CV first, in
\* upload order, from the upload on and after the confirmation.
C17_AllFilesAttached ==
    [][\A s \in Sessions :
          /\ \A files \in Uploads :
                UploadFiles(s, files) => session_state'[s].attachments = files
          /\ \A lang \in {"English", "German"}, call_ok \in BOOLEAN :
                Confirm(s, lang, call_ok) =>
                   /\ lang = "German" =>
                         session_state'[s].cv_content =
                            extract_text_from_pdf(ui[s].uploaded[1])
                   /\ session_state'[s].attachments = ui[s].uploaded
                   /\ session_state'[s].attachments[1] = ui[s].uploaded[1]]_vars

\* an upload of two files has been confirmed
C17_Witness ==
    /\ session_state["s1"].step = "main_app"
    /\ session_state["s1"].cv_content = "cv_text"
    /\ session_state["s1"].attachments = <<"cv.pdf", "cert.pdf">>
    /\ session_state["s1"].current_job_id = 0
    /\ sent_emails = <<>>

\* C18: a Regenerate replaces the draft of the active mode by a draft for the
\* same job and nothing else: the other draft, current_job_id,
\* current_job_details, the attachments and the rest of the session, the
\* profile (applied_jobs, both counters) and the SentEmail records are as
\* before, and the same job is offered after it.
C18_RegenerateFrame ==
    [][\A s \in Sessions, resp \in Responses :
          (calls'.regenerate = 1 /\ Regenerate(s, resp)) =>
             /\ calls'.generate = 1
             /\ user_profile' = user_profile
             /\ sent_emails' = sent_emails
             /\ ui'[s].offered = ui[s].offered
             /\ ui'[s].page = ui[s].page
             /\ IF ui[s].page = "Add Manual Job"
                THEN /\ [session_state'[s] EXCEPT !.manual_email_content =
                            session_state[s].manual_email_content] = session_state[s]
                     /\ session_state'[s].manual_email_content # NoContent
                     /\ session_state'[s].manual_email_content.about = "Manual Entry"
                ELSE /\ [session_state'[s] EXCEPT !.generated_email_content =
                            session_state[s].generated_email_content] = session_state[s]
                     /\ session_state'[s].generated_email_content # NoContent
                     /\ session_state'[s].generated_email_content.about =
                           Title(session_state[s].current_job_id)]_vars

\* a draft made from a completion has been regenerated with a failed call,
\* in catalog mode
C18_Witness ==
    /\ calls.regenerate = 1
    /\ ~calls.completion.ok
    /\ CatalogFormShown("s1")
    /\ session_state["s1"].generated_email_content.body = Placeholder
    /\ session_state["s1"].manual_email_content # NoContent
    /\ session_state["s1"].manual_email_content.body # Placeholder

\* C19: whenever the catalog Review/Send form is drawn, current_job_details
\* and current_job_id are those of the job the selector returned in that
\* render and the draft was generated for that job; a render that selects
\* another job than the session held discards the draft before a form is
\* drawn; a successful catalog send stores the record of, and marks as
\* applied, exactly the job whose form was displayed.
C19_DraftJob ==
    /\ [](\A s \in Sessions :
            CatalogFormShown(s) =>
               /\ session_state[s].current_job_id = ui[s].offered
               /\ session_state[s].current_job_details = JobDetails(jobs_df, ui[s].offered)
               /\ session_state[s].generated_email_content.about = Title(ui[s].offered))
    /\ [][\A s \in Sessions :
            /\ (ui'[s].offered # NoJob /\ ui'[s].offered # session_state[s].current_job_id) =>
                  session_state'[s].generated_email_content = NoContent
            /\ (ui[s].pc = "idle" /\ ui'[s].pc = "send_union") =>
                  /\ CatalogFormShown(s)
                  /\ ui'[s].offered = ui[s].offered
                  /\ session_state'[s] = session_state[s]
                  /\ sent_emails' = Append(sent_emails,
                        [recipient |-> JobDetails(jobs_df, ui[s].offered).contact_email,
                         job_title |-> Title(ui[s].offered)])
            /\ SendUnion(s) =>
                  /\ session_state[s].generated_email_content.about = Title(ui[s].offered)
                  /\ user_profile'.applied_jobs =
                        user_profile.applied_jobs \cup {Str(ui[s].offered)}]_vars

\* job 0 has been skipped, and a session that was shown the form of job 1 has
\* sent it and marked it
C19_Witness ==
    /\ ui["s1"].pc = "send_inc"
    /\ 0 \in skipped_ids
    /\ session_state["s1"].current_job_details.job_id = 1
    /\ session_state["s1"].generated_email_content.about = Title(1)
    /\ user_profile.applied_jobs = {"0", "1"}
    /\ SentJobs = {1}

\* C20: with one session acting from the empty profile, whenever no handler is
\* in progress the two counters add up to the number of ids in applied_jobs.
C20_CounterSetAgreement ==
    Quiescent =>
       user_profile.stats.sent_count + user_profile.stats.skipped_count
          = Cardinality(user_profile.applied_jobs)

\* one job has been skipped and another one sent
C20_Witness ==
    /\ Quiescent
    /\ user_profile.stats.sent_count = 1
    /\ user_profile.stats.skipped_count = 1
    /\ Cardinality(user_profile.applied_jobs) = 2
    /\ ui["s1"].offered = 2

\* no row of the catalog is left for the selector
CatalogDone == NextJob(jobs_df, user_profile.applied_jobs) = NoJob

\* the Skips and successful Sends made so far
ActionsDone == skips_clicked + mails_sent

\* C21: when the operator keeps skipping or sending the offered job, the
\* catalog is eventually exhausted, after at most NRows such actions; once it
\* is exhausted it stays so, and every render of the Job Finder from then on
\* offers no job.
C21_Exhaustion ==
    /\ <>[]CatalogDone
    /\ [](ActionsDone <= NRows)
    /\ [][CatalogDone => CatalogDone']_vars
    /\ [](\A s \in Sessions :
            (OnFinder(s) /\ CatalogDone) => ui[s].offered = NoJob)

\* every row of a full catalog has been skipped or sent, and the Job Finder
\* reports the catalog exhausted
C21_Witness ==
    /\ OnFinder("s1")
    /\ ui["s1"].offered = NoJob
    /\ CatalogDone
    /\ ActionsDone = NRows
    /\ mails_sent >= 1
    /\ skipped_ids # {}
====
